---- MODULE Spec2Model ----
(***************************************************************************)
(* Model of spellbot's client (src/src/spellbot/client.py):                *)
(*   - SpellBot.channel_lock: the per-channel asyncio.Lock kept in an      *)
(*     ExpiringDict(max_len, max_age_seconds) (specifications Spec and     *)
(*     FairSpec);                                                          *)
(*   - SpellBot.on_message / SpellBot.handle_verification: the moderation  *)
(*     pipeline, one step per await (specification MsgSpec);               *)
(*   - SpellBot.handle_errors: the error router of failed interactions     *)
(*     (specification ErrSpec).                                            *)
(***************************************************************************)
EXTENDS Naturals, Integers, Sequences, FiniteSets

\* ------------------------------------------------------------------ bounds
\* Tasks that call channel_lock concurrently.
NumTasks == 3
\* Distinct channel ids used as lock keys.
NumKeys == 2
\* ExpiringDict max_len (100 in client.py:50), scaled down.
MaxLen == 1
\* ExpiringDict max_age_seconds (3600 in client.py:50), in clock ticks.
MaxAge == 1

\* Messages handled concurrently by on_message.
NumMsgs == 2
\* Distinct message authors.
NumUsers == 2
\* Distinct text channels of the guild.
NumChannels == 2
\* Failed interactions handled concurrently by handle_errors.
NumErrs == 2

Tasks == 1..NumTasks
Msgs == 1..NumMsgs
Users == 1..NumUsers
Channels == 1..NumChannels
Keys == 1..NumKeys
Errs == 1..NumErrs
\* Identities of asyncio.Lock objects: one more than the cache and the other
\* tasks can refer to at once, so that asyncio.Lock() always has a new one.
LockIds == 1..(NumTasks + MaxLen)
\* dict.get's default (None): no lock.
None == 0

VARIABLES
    pc,         \* task slot -> "idle" (no task yet, or it is over), "waiting", "cs"
    key,        \* task -> the channel_xid it called channel_lock with
    myLock,     \* task -> the Lock instance its `async with` is bound to
    fut,        \* task -> state of the future it awaits in Lock.acquire
    cache,      \* channel_locks: entries in insertion order (OrderedDict)
    locks,      \* lock id -> [locked, waiters] (asyncio.Lock state)
    lastExit    \* how channel_lock was last left: how its body ended, or
                \* "keyerror" when line 56 raised before the body

lockVars == <<pc, key, myLock, fut, cache, locks, lastExit>>

VARIABLES
    mpc,         \* message -> the await its on_message task is at
    msg,         \* message -> the event's fields and the handler's locals
    guildRows,   \* the guild's row exists in the store
    channelRows, \* channels with a row in the store
    verify       \* user -> the verified column of its row in this guild

msgVars == <<mpc, msg, guildRows, channelRows, verify>>

VARIABLES
    epc,        \* handle_errors call -> "new", "send" (in safe_send_channel), "done"
    err,        \* call -> its arguments ctx and ex and the notice it chose
    sent,       \* call -> the notices passed to safe_send_channel
    logged      \* call -> the records passed to logger.error

errVars == <<epc, err, sent, logged>>

vars == <<lockVars, msgVars, errVars>>

\* ------------------------------------------------------- ExpiringDict
\* An entry is (value, set_time); the model keeps the entry's age,
\* time.time() - set_time, in ticks, and does not tell ages past max_age apart.

\* Index of key k in the ordered dict c, 0 when absent.
IndexOf(c, k) ==
    IF \E i \in 1..Len(c) : c[i].key = k
    THEN CHOOSE i \in 1..Len(c) : c[i].key = k
    ELSE 0

\* del self[key]
DelKey(c, k) == SelectSeq(c, LAMBDA e : e.key # k)

\* Mutant of Live: the age is never compared, an entry lives for ever.
LiveForEver(e) == e.age >= 0

\* item_age < self.max_age
Live(e) == e.age < MaxAge

\* One tick of time.time(): every entry is one tick older.
Aged(c) ==
    [i \in 1..Len(c) |->
        [c[i] EXCEPT !.age = IF c[i].age < MaxAge THEN c[i].age + 1 ELSE MaxAge]]

\* Mutant of ExpGetItem: the key is not compared, the oldest live entry's lock
\* is handed out for every channel.
ExpGetItemAnyKey(c, k) ==
    IF Len(c) = 0 THEN [cache |-> c, val |-> None, raised |-> TRUE]
    ELSE IF Live(c[1]) THEN [cache |-> c, val |-> c[1].lock, raised |-> FALSE]
    ELSE [cache |-> Tail(c), val |-> None, raised |-> TRUE]

\* ExpiringDict.__getitem__: the value of a live entry; an expired entry is
\* deleted and KeyError raised (val = None, raised = TRUE).
ExpGetItem(c, k) ==
    LET i == IndexOf(c, k) IN
    IF i = 0 THEN [cache |-> c, val |-> None, raised |-> TRUE]
    ELSE IF Live(c[i]) THEN [cache |-> c, val |-> c[i].lock, raised |-> FALSE]
    ELSE [cache |-> DelKey(c, k), val |-> None, raised |-> TRUE]

\* ExpiringDict.get: __getitem__ with KeyError turned into the default None.
ExpGet(c, k) ==
    LET r == ExpGetItem(c, k) IN [cache |-> r.cache, val |-> r.val]

\* ExpiringDict.__contains__: an expired entry is deleted and reported absent.
ExpContains(c, k) ==
    LET i == IndexOf(c, k) IN
    IF i = 0 THEN [cache |-> c, found |-> FALSE]
    ELSE IF Live(c[i]) THEN [cache |-> c, found |-> TRUE]
    ELSE [cache |-> DelKey(c, k), found |-> FALSE]

\* OrderedDict.popitem(last=False), KeyError on an empty dict swallowed.
PopOldest(c) == IF Len(c) = 0 THEN c ELSE Tail(c)

\* OrderedDict.__setitem__ of (value, time.time()): a present key keeps its
\* position.
OrdSet(c, k, l) ==
    LET i == IndexOf(c, k)
        e == [key |-> k, lock |-> l, age |-> 0] IN
    IF i = 0 THEN Append(c, e) ELSE [c EXCEPT ![i] = e]

\* Mutant of ExpSetItem: nothing is dropped at capacity.
ExpSetItemNoDrop(c, k, l) == OrdSet(c, k, l)

\* ExpiringDict.__setitem__: at capacity the key itself, or else the oldest
\* entry, is dropped first; whether that entry's lock is held is not looked at.
ExpSetItem(c, k, l) ==
    LET full == Len(c) = MaxLen
        has == ExpContains(c, k)
        c1 == IF ~full THEN c
              ELSE IF has.found THEN DelKey(has.cache, k)
              ELSE PopOldest(has.cache) IN
    OrdSet(c1, k, l)

\* ------------------------------------------------------- asyncio.Lock
\* all(w.cancelled() for w in self._waiters)
AllCancelled(ws, f) == \A i \in 1..Len(ws) : f[ws[i]] = "cancelled"

\* Lock._wake_up_first: the first waiter's future gets its result unless done.
WakeUpFirst(ws, f) ==
    IF Len(ws) > 0 /\ f[ws[1]] = "pending"
    THEN [f EXCEPT ![ws[1]] = "result"]
    ELSE f

\* self._waiters.remove(fut)
RemoveWaiter(ws, t) == SelectSeq(ws, LAMBDA u : u # t)

\* ------------------------------------------------------------ Init
LockInit ==
    /\ pc = [t \in Tasks |-> "idle"]
    /\ key = [t \in Tasks |-> None]
    /\ myLock = [t \in Tasks |-> None]
    /\ fut = [t \in Tasks |-> "none"]
    /\ cache = <<>>
    /\ locks = [l \in LockIds |-> [locked |-> FALSE, waiters |-> <<>>]]
    /\ lastExit = "none"

\* --------------------------------------------------------- channel_lock
\* asyncio.Lock(): an object that is none of those the cache or a task still
\* refers to.
NewLock ==
    CHOOSE l \in LockIds :
        /\ \A i \in 1..Len(cache) : cache[i].lock # l
        /\ \A t \in Tasks : myLock[t] # l
        /\ \A m \in LockIds :
              (m < l) => \/ \E i \in 1..Len(cache) : cache[i].lock = m
                         \/ \E t \in Tasks : myLock[t] = m

\* Lines 54-56 run without an await up to Lock.acquire: get, the insertion of
\* a new Lock when get gave None, the lookup of line 56 and the uncontended
\* path of acquire are one step.
ChannelLock(t, k) ==
    /\ pc[t] = "idle"
    /\ LET g == ExpGet(cache, k)
           fresh == g.val = None
           c2 == IF fresh THEN ExpSetItem(g.cache, k, NewLock) ELSE g.cache
           r == ExpGetItem(c2, k)
           l == r.val
       IN  /\ ~r.raised
           /\ cache' = r.cache
           /\ key' = [key EXCEPT ![t] = k]
           /\ myLock' = [myLock EXCEPT ![t] = l]
           /\ IF ~locks[l].locked /\ AllCancelled(locks[l].waiters, fut)
              THEN /\ locks' = [locks EXCEPT ![l].locked = TRUE]
                   /\ pc' = [pc EXCEPT ![t] = "cs"]
                   /\ fut' = fut
              ELSE /\ locks' = [locks EXCEPT ![l].waiters = Append(@, t)]
                   /\ pc' = [pc EXCEPT ![t] = "waiting"]
                   /\ fut' = [fut EXCEPT ![t] = "pending"]
    /\ UNCHANGED <<lastExit, msgVars, errVars>>

\* The two time.time() reads of lines 54 and 56 straddle the entry's expiry:
\* get still finds the lock, __getitem__ deletes the entry and raises KeyError
\* out of channel_lock before the lock is touched.
ChannelLockKeyError(t, k) ==
    /\ pc[t] = "idle"
    /\ LET g == ExpGet(cache, k)
           r == ExpGetItem(Aged(g.cache), k)
       IN  /\ g.val # None
           /\ r.raised
           /\ cache' = r.cache
    /\ lastExit' = "keyerror"
    /\ UNCHANGED <<pc, key, myLock, fut, locks, msgVars, errVars>>

\* Lock.release: the lock is free and the first waiter is woken.
Release(lk) == [lk EXCEPT !.locked = FALSE]

\* Mutant of ExitBody: acquire and release written around the yield without a
\* finally, so that a cancelled body leaves the lock locked.
ExitBodyNoFinally(t, how) ==
    /\ pc[t] = "cs"
    /\ locks' = IF how = "cancelled" THEN locks
                ELSE [locks EXCEPT ![myLock[t]] = Release(@)]
    /\ fut' = IF how = "cancelled" THEN fut
              ELSE WakeUpFirst(locks[myLock[t]].waiters, fut)
    /\ pc' = [pc EXCEPT ![t] = "idle"]
    /\ key' = [key EXCEPT ![t] = None]
    /\ myLock' = [myLock EXCEPT ![t] = None]
    /\ lastExit' = how
    /\ UNCHANGED <<cache, msgVars, errVars>>

\* The body under `yield` ends by "returned", "raised" (an exception thrown
\* at the yield) or "cancelled" (CancelledError thrown at the yield). The
\* async with of line 56 runs Lock.release on each of them.
ExitBody(t, how) ==
    /\ pc[t] = "cs"
    /\ locks' = [locks EXCEPT ![myLock[t]] = Release(@)]
    /\ fut' = WakeUpFirst(locks[myLock[t]].waiters, fut)
    /\ pc' = [pc EXCEPT ![t] = "idle"]
    /\ key' = [key EXCEPT ![t] = None]
    /\ myLock' = [myLock EXCEPT ![t] = None]
    /\ lastExit' = how
    /\ UNCHANGED <<cache, msgVars, errVars>>

\* A woken waiter resumes in Lock.acquire: its future leaves the queue and it
\* takes the lock.
WaiterResume(t) ==
    /\ pc[t] = "waiting"
    /\ fut[t] = "result"
    /\ locks' = [locks EXCEPT ![myLock[t]] =
                    [locked |-> TRUE, waiters |-> RemoveWaiter(@.waiters, t)]]
    /\ fut' = [fut EXCEPT ![t] = "none"]
    /\ pc' = [pc EXCEPT ![t] = "cs"]
    /\ UNCHANGED <<key, myLock, cache, lastExit, msgVars, errVars>>

\* Task.cancel() on a task waiting in Lock.acquire with a pending future: the
\* future is cancelled and stays queued until the task runs.
WaiterCancel(t) ==
    /\ pc[t] = "waiting"
    /\ fut[t] = "pending"
    /\ fut' = [fut EXCEPT ![t] = "cancelled"]
    /\ UNCHANGED <<pc, key, myLock, cache, locks, lastExit, msgVars, errVars>>

\* Mutant of WaiterCancelled: acquire has no `except CancelledError` clause,
\* a free lock is not handed on.
WaiterCancelledNoWake(t) ==
    /\ pc[t] = "waiting"
    /\ fut[t] \in {"cancelled", "result"}
    /\ locks' = [locks EXCEPT ![myLock[t]].waiters = RemoveWaiter(@, t)]
    /\ fut' = [fut EXCEPT ![t] = "none"]
    /\ pc' = [pc EXCEPT ![t] = "idle"]
    /\ key' = [key EXCEPT ![t] = None]
    /\ myLock' = [myLock EXCEPT ![t] = None]
    /\ UNCHANGED <<cache, lastExit, msgVars, errVars>>

\* CancelledError reaches the waiter (its future was cancelled, or the task
\* was cancelled after being woken): the future leaves the queue, and a free
\* lock is handed to the next waiter.
WaiterCancelled(t) ==
    /\ pc[t] = "waiting"
    /\ fut[t] \in {"cancelled", "result"}
    /\ LET l == myLock[t]
           ws == RemoveWaiter(locks[l].waiters, t)
           f1 == [fut EXCEPT ![t] = "none"] IN
       /\ locks' = [locks EXCEPT ![l].waiters = ws]
       /\ fut' = IF ~locks[l].locked THEN WakeUpFirst(ws, f1) ELSE f1
    /\ pc' = [pc EXCEPT ![t] = "idle"]
    /\ key' = [key EXCEPT ![t] = None]
    /\ myLock' = [myLock EXCEPT ![t] = None]
    /\ UNCHANGED <<cache, lastExit, msgVars, errVars>>

\* time.time() advances by one tick.
Tick ==
    /\ cache' = Aged(cache)
    /\ cache' # cache
    /\ UNCHANGED <<pc, key, myLock, fut, locks, lastExit, msgVars, errVars>>

ExitKinds == {"returned", "raised", "cancelled"}

LockNext ==
    \/ \E t \in Tasks, k \in Keys : ChannelLock(t, k)
    \/ \E t \in Tasks, k \in Keys : ChannelLockKeyError(t, k)
    \/ \E t \in Tasks, how \in ExitKinds : ExitBody(t, how)
    \/ \E t \in Tasks : WaiterResume(t)
    \/ \E t \in Tasks : WaiterCancel(t)
    \/ \E t \in Tasks : WaiterCancelled(t)
    \/ Tick

\* ------------------------------------------------ the store's services
\* An author without an id attribute (client.py:135).
NoId == 0

\* The verified column: no row, or a row holding NULL, true or false.
VerifyVals == {"absent", "unknown", "true", "false"}

\* VerifiesService.upsert(guild_xid, user_xid, verified): a definite value is
\* written; None creates a row holding NULL or leaves the row as it is.
VerifiesUpsert(v, u, val) ==
    IF val # "none" THEN [v EXCEPT ![u] = val]
    ELSE IF v[u] = "absent" THEN [v EXCEPT ![u] = "unknown"]
    ELSE v

\* VerifiesService.is_verified: a missing row or NULL counts as not verified.
VerifiesIsVerified(v, u) == v[u] = "true"

\* A channel row's policy columns (models/channel.py:59-79).
Policies == [auto_verify : BOOLEAN, unverified_only : BOOLEAN, verified_only : BOOLEAN]

NoPolicy == [auto_verify |-> FALSE, unverified_only |-> FALSE, verified_only |-> FALSE]

\* A message event not yet delivered. kind, channel, author and can_moderate
\* (what user_can_moderate answers for the author) come with the event; the
\* other fields are handle_verification's locals, upserted and deletes count
\* its calls of verify.upsert and message.delete.
NoMsg ==
    [kind |-> "none", channel |-> 0, author |-> NoId, policy |-> NoPolicy,
     verified |-> "none", can_moderate |-> FALSE, user_is_verified |-> FALSE,
     upserted |-> FALSE, deletes |-> 0]

MsgInit ==
    /\ mpc = [m \in Msgs |-> "new"]
    /\ msg = [m \in Msgs |-> NoMsg]
    /\ guildRows = FALSE
    /\ channelRows = {}
    /\ verify \in [Users -> {"absent", "true", "false"}]

\* ------------------------------------------------------------ on_message
\* Lines 122-131, after handle_verification returned: the reply hint when the
\* content starts with the legacy prefix (a failing reply is logged, not raised).
AfterVerification(m, prefixed) ==
    mpc' = [mpc EXCEPT ![m] = IF prefixed THEN "reply" ELSE "done"]

\* Mutant of OnMessage: lines 119-120 are missing, a hidden message of a text
\* channel is handled like any other.
OnMessageNoFlags(m, kind, ch, au, can, prefixed) ==
    /\ mpc[m] = "new"
    /\ au = NoId => ~can
    /\ msg' = [msg EXCEPT ![m] =
                  IF kind \in {"text", "hidden"}
                  THEN [NoMsg EXCEPT !.kind = kind, !.channel = ch,
                                     !.author = au, !.can_moderate = can]
                  ELSE [NoMsg EXCEPT !.kind = kind]]
    /\ IF kind \notin {"text", "hidden"} THEN mpc' = [mpc EXCEPT ![m] = "done"]
       ELSE IF au = NoId THEN AfterVerification(m, prefixed)
       ELSE mpc' = [mpc EXCEPT ![m] = "guilds_upsert"]
    /\ UNCHANGED <<guildRows, channelRows, verify, lockVars, errVars>>

\* Lines 111-121 and 135-137: direct messages go to the command framework,
\* messages outside text channels and hidden messages are dropped (of these
\* only the kind is kept), and handle_verification gives up on an author
\* without an id.
OnMessage(m, kind, ch, au, can, prefixed) ==
    /\ mpc[m] = "new"
    /\ au = NoId => ~can
    /\ msg' = [msg EXCEPT ![m] =
                  IF kind = "text"
                  THEN [NoMsg EXCEPT !.kind = kind, !.channel = ch,
                                     !.author = au, !.can_moderate = can]
                  ELSE [NoMsg EXCEPT !.kind = kind]]
    /\ IF kind # "text" THEN mpc' = [mpc EXCEPT ![m] = "done"]
       ELSE IF au = NoId THEN AfterVerification(m, prefixed)
       ELSE mpc' = [mpc EXCEPT ![m] = "guilds_upsert"]
    /\ UNCHANGED <<guildRows, channelRows, verify, lockVars, errVars>>

\* Line 140: await guilds.upsert(message.guild)
GuildsUpsert(m) ==
    /\ mpc[m] = "guilds_upsert"
    /\ guildRows' = TRUE
    /\ mpc' = [mpc EXCEPT ![m] = "channels_upsert"]
    /\ UNCHANGED <<msg, channelRows, verify, lockVars, errVars>>

\* Line 142: await channels.upsert(message.channel); the service keeps the
\* channel's row, with the policy columns it holds at that time.
ChannelsUpsert(m, pol) ==
    /\ mpc[m] = "channels_upsert"
    /\ channelRows' = channelRows \cup {msg[m].channel}
    /\ msg' = [msg EXCEPT ![m].policy = pol]
    /\ mpc' = [mpc EXCEPT ![m] = "should_auto_verify"]
    /\ UNCHANGED <<guildRows, verify, lockVars, errVars>>

\* Mutant of VerifiedArg: line 144 is missing, verified stays None.
VerifiedArgNone(pol) == IF pol.auto_verify THEN "none" ELSE "none"

\* Mutant of VerifiedArg: the answer of should_auto_verify is passed on as
\* the value, so a channel without auto_verify writes False.
VerifiedArgBool(pol) == IF pol.auto_verify THEN "true" ELSE "false"

\* Lines 138, 143-144: verified stays None unless the channel auto-verifies.
VerifiedArg(pol) == IF pol.auto_verify THEN "true" ELSE "none"

ShouldAutoVerify(m) ==
    /\ mpc[m] = "should_auto_verify"
    /\ msg' = [msg EXCEPT ![m].verified = VerifiedArg(msg[m].policy)]
    /\ mpc' = [mpc EXCEPT ![m] = "verify_upsert"]
    /\ UNCHANGED <<guildRows, channelRows, verify, lockVars, errVars>>

\* Mutant of VerifyUpsert: the upsert is put off until after the read of line
\* 150, which sees the store as it was.
VerifyUpsertAfterRead(m, prefixed) ==
    /\ mpc[m] = "verify_upsert"
    /\ verify' = verify
    /\ msg' = [msg EXCEPT ![m].upserted = TRUE]
    /\ IF msg[m].can_moderate THEN AfterVerification(m, prefixed)
       ELSE mpc' = [mpc EXCEPT ![m] = "is_verified"]
    /\ UNCHANGED <<guildRows, channelRows, lockVars, errVars>>

\* Mutant of VerifyUpsert: user_can_moderate is not asked, the policy applies
\* to every author.
VerifyUpsertNoExemption(m, prefixed) ==
    /\ mpc[m] = "verify_upsert"
    /\ verify' = VerifiesUpsert(verify, msg[m].author, msg[m].verified)
    /\ msg' = [msg EXCEPT ![m].upserted = TRUE]
    /\ mpc' = [mpc EXCEPT ![m] = "is_verified"]
    /\ UNCHANGED <<guildRows, channelRows, lockVars, errVars>>

\* Lines 148-149: await verify.upsert(...), then user_can_moderate decides
\* whether the deletion policy applies to the author at all.
VerifyUpsert(m, prefixed) ==
    /\ mpc[m] = "verify_upsert"
    /\ verify' = VerifiesUpsert(verify, msg[m].author, msg[m].verified)
    /\ msg' = [msg EXCEPT ![m].upserted = TRUE]
    /\ IF msg[m].can_moderate THEN AfterVerification(m, prefixed)
       ELSE mpc' = [mpc EXCEPT ![m] = "is_verified"]
    /\ UNCHANGED <<guildRows, channelRows, lockVars, errVars>>

\* Line 150: user_is_verified = await verify.is_verified(); the `and` / `not
\* ... and` of lines 151 and 153 then read one policy column each.
IsVerified(m) ==
    /\ mpc[m] = "is_verified"
    /\ LET v == VerifiesIsVerified(verify, msg[m].author) IN
       /\ msg' = [msg EXCEPT ![m].user_is_verified = v]
       /\ mpc' = [mpc EXCEPT ![m] = IF v THEN "unverified_only" ELSE "verified_only"]
    /\ UNCHANGED <<guildRows, channelRows, verify, lockVars, errVars>>

\* Mutant of UnverifiedOnly: line 151 reads the verified_only column.
UnverifiedOnlySwapped(m, prefixed) ==
    /\ mpc[m] = "unverified_only"
    /\ IF msg[m].policy.verified_only
       THEN mpc' = [mpc EXCEPT ![m] = "delete"]
       ELSE AfterVerification(m, prefixed)
    /\ UNCHANGED <<msg, guildRows, channelRows, verify, lockVars, errVars>>

\* Line 151: a verified author's message goes when the channel is
\* unverified_only; line 153 is then skipped over (not user_is_verified fails).
UnverifiedOnly(m, prefixed) ==
    /\ mpc[m] = "unverified_only"
    /\ IF msg[m].policy.unverified_only
       THEN mpc' = [mpc EXCEPT ![m] = "delete"]
       ELSE AfterVerification(m, prefixed)
    /\ UNCHANGED <<msg, guildRows, channelRows, verify, lockVars, errVars>>

\* Mutant of VerifiedOnly: line 153 reads the unverified_only column.
VerifiedOnlySwapped(m, prefixed) ==
    /\ mpc[m] = "verified_only"
    /\ IF msg[m].policy.unverified_only
       THEN mpc' = [mpc EXCEPT ![m] = "delete"]
       ELSE AfterVerification(m, prefixed)
    /\ UNCHANGED <<msg, guildRows, channelRows, verify, lockVars, errVars>>

\* Line 153: an unverified author's message goes when the channel is
\* verified_only.
VerifiedOnly(m, prefixed) ==
    /\ mpc[m] = "verified_only"
    /\ IF msg[m].policy.verified_only
       THEN mpc' = [mpc EXCEPT ![m] = "delete"]
       ELSE AfterVerification(m, prefixed)
    /\ UNCHANGED <<msg, guildRows, channelRows, verify, lockVars, errVars>>

\* Mutant of MessageDelete: line 153 lacks `not user_is_verified and`, so after
\* the delete of line 152 the verified_only column is looked at as well.
MessageDeleteThenVerifiedOnly(m, ok, prefixed) ==
    /\ mpc[m] = "delete"
    /\ msg' = [msg EXCEPT ![m].deletes = @ + 1]
    /\ IF ~ok THEN mpc' = [mpc EXCEPT ![m] = "raised"]
       ELSE IF msg[m].user_is_verified /\ msg[m].deletes = 0
       THEN mpc' = [mpc EXCEPT ![m] = "verified_only"]
       ELSE AfterVerification(m, prefixed)
    /\ UNCHANGED <<guildRows, channelRows, verify, lockVars, errVars>>

\* Lines 152 and 154: await message.delete(), with nothing around it to catch
\* its exceptions (NotFound, Forbidden, HTTPException): a failing delete
\* raises out of handle_verification and on_message.
MessageDelete(m, ok, prefixed) ==
    /\ mpc[m] = "delete"
    /\ msg' = [msg EXCEPT ![m].deletes = @ + 1]
    /\ IF ok THEN AfterVerification(m, prefixed)
       ELSE mpc' = [mpc EXCEPT ![m] = "raised"]
    /\ UNCHANGED <<guildRows, channelRows, verify, lockVars, errVars>>

\* Lines 124-131: await message.reply(...), any exception logged as a warning.
Reply(m) ==
    /\ mpc[m] = "reply"
    /\ mpc' = [mpc EXCEPT ![m] = "done"]
    /\ UNCHANGED <<msg, guildRows, channelRows, verify, lockVars, errVars>>

Kinds == {"dm", "nontext", "hidden", "text"}

MsgNext ==
    \/ \E m \in Msgs, kind \in Kinds, ch \in Channels, au \in Users \cup {NoId},
          can \in BOOLEAN, prefixed \in BOOLEAN : OnMessage(m, kind, ch, au, can, prefixed)
    \/ \E m \in Msgs : GuildsUpsert(m)
    \/ \E m \in Msgs, pol \in Policies : ChannelsUpsert(m, pol)
    \/ \E m \in Msgs : ShouldAutoVerify(m)
    \/ \E m \in Msgs, prefixed \in BOOLEAN : VerifyUpsert(m, prefixed)
    \/ \E m \in Msgs : IsVerified(m)
    \/ \E m \in Msgs, prefixed \in BOOLEAN : UnverifiedOnly(m, prefixed)
    \/ \E m \in Msgs, prefixed \in BOOLEAN : VerifiedOnly(m, prefixed)
    \/ \E m \in Msgs, ok \in BOOLEAN, prefixed \in BOOLEAN : MessageDelete(m, ok, prefixed)
    \/ \E m \in Msgs : Reply(m)

\* --------------------------------------------------------- handle_errors
\* The exception classes handle_errors can meet: those its isinstance tests
\* name (client.py:68, 74, 80), those spellbot/errors.py defines, and any other.
ExKinds ==
    {"NoPrivateMessage", "SpellbotAdminOnly", "UserBannedError",
     "AdminOnlyError", "GuildOnlyError", "GuildBannedError", "Exception"}

\* The classes an exception of class c is an instance of. errors.py derives
\* its classes from SpellBotError; it defines no SpellbotAdminOnly, so none of
\* its classes is one.
Bases(c) ==
    IF c \in {"AdminOnlyError", "GuildOnlyError", "UserBannedError", "GuildBannedError"}
    THEN {c, "SpellBotError", "AppCommandError", "Exception"}
    ELSE IF c = "NoPrivateMessage"
    THEN {c, "CheckFailure", "CommandError", "Exception"}
    ELSE {c, "Exception"}

\* isinstance(ex, cls)
IsInstance(c, cls) == cls \in Bases(c)

\* The interaction contexts: SlashContext, ComponentContext and any other
\* InteractionContext, with the attributes the reference is built from.
CtxTypes == {"SlashContext", "ComponentContext", "InteractionContext"}

Ctx(type) ==
    [type |-> type, name |-> "name", custom_id |-> "custom_id",
     interaction_id |-> "interaction_id"]

\* Lines 87-93: the origin reference of the diagnostic.
Ref(ctx) ==
    IF ctx.type = "SlashContext" THEN <<"command", ctx.name>>
    ELSE IF ctx.type = "ComponentContext" THEN <<"component", ctx.custom_id>>
    ELSE <<"interaction", ctx.interaction_id>>

\* Lines 68-85: the notice of the first isinstance test that matches, "" when
\* none does.
Notice(c) ==
    IF IsInstance(c, "NoPrivateMessage")
    THEN "This command is not supported via Direct Message."
    ELSE IF IsInstance(c, "SpellbotAdminOnly")
    THEN "You do not have permission to do that."
    ELSE IF IsInstance(c, "UserBannedError")
    THEN "You have been banned from using SpellBot."
    ELSE ""

NoErr == [ctx |-> Ctx("InteractionContext"), ex |-> "Exception", text |-> ""]

ErrInit ==
    /\ epc = [e \in Errs |-> "new"]
    /\ err = [e \in Errs |-> NoErr]
    /\ sent = [e \in Errs |-> <<>>]
    /\ logged = [e \in Errs |-> <<>>]

\* handle_errors(ctx, ex) up to its await: a classified exception goes to
\* safe_send_channel with its notice; any other is logged with logger.error
\* (level, origin reference, class name) and its traceback printed.
HandleErrors(e, type, c) ==
    /\ epc[e] = "new"
    /\ err' = [err EXCEPT ![e] = [ctx |-> Ctx(type), ex |-> c, text |-> Notice(c)]]
    /\ IF Notice(c) # ""
       THEN /\ epc' = [epc EXCEPT ![e] = "send"]
            /\ logged' = logged
       ELSE /\ epc' = [epc EXCEPT ![e] = "done"]
            /\ logged' = [logged EXCEPT ![e] =
                              Append(@, [level |-> "error", ref |-> Ref(Ctx(type)),
                                         class |-> c])]
    /\ sent' = sent
    /\ UNCHANGED <<lockVars, msgVars>>

\* Lines 69-73, 75-79, 81-85: return await safe_send_channel(ctx, text,
\* hidden=True).
SafeSendChannel(e) ==
    /\ epc[e] = "send"
    /\ sent' = [sent EXCEPT ![e] = Append(@, [text |-> err[e].text, hidden |-> TRUE])]
    /\ epc' = [epc EXCEPT ![e] = "done"]
    /\ UNCHANGED <<err, logged, lockVars, msgVars>>

ErrNext ==
    \/ \E e \in Errs, type \in CtxTypes, c \in ExKinds : HandleErrors(e, type, c)
    \/ \E e \in Errs : SafeSendChannel(e)

\* ------------------------------------------------------ specifications
\* The lock cache under concurrent channel_lock calls.
Init ==
    /\ LockInit
    /\ MsgInit
    /\ verify = [u \in Users |-> "absent"]
    /\ ErrInit

Next == LockNext

Spec == Init /\ [][Next]_vars

\* The lock cache under the event loop's scheduling: a task whose future is
\* done (woken or cancelled) is run, and every body that was entered ends.
FairSpec ==
    /\ Spec
    /\ \A t \in Tasks :
          /\ WF_vars(WaiterResume(t))
          /\ WF_vars(WaiterCancelled(t))
          /\ WF_vars(\E how \in ExitKinds : ExitBody(t, how))

\* The moderation pipeline under concurrent on_message calls.
MsgSpecInit == LockInit /\ MsgInit /\ ErrInit

MsgSpec == MsgSpecInit /\ [][MsgNext]_vars

\* The error router under concurrent failed interactions.
ErrSpec == Init /\ [][ErrNext]_vars

\* ------------------------------------------------------------ claims
\* The tasks inside the body of channel_lock(k).
Inside(k) == {t \in Tasks : pc[t] = "cs" /\ key[t] = k}

\* u is queued before t on the lock t waits for.
QueuedBefore(u, t) ==
    LET ws == locks[myLock[t]].waiters IN
    \E i, j \in 1..Len(ws) : i < j /\ ws[i] = u /\ ws[j] = t

\* C1: for every channel id, at most one task is inside the body of
\* channel_lock at any time.
C1_MutualExclusion == \A k \in Keys : Cardinality(Inside(k)) <= 1

\* C2: while a task is inside channel_lock(k), channel_locks keeps the entry
\* of k with the lock the task holds.
C2_HeldEntryKept ==
    \A t \in Tasks :
        pc[t] = "cs" =>
            \E i \in 1..Len(cache) :
                cache[i].key = key[t] /\ cache[i].lock = myLock[t]

\* C9: whenever a body leaves channel_lock, by return, exception or
\* cancellation, its lock is unlocked in the next state and the waiter at the
\* head of the lock's queue, if any, is runnable (woken, or cancelled and about
\* to pass the lock on).
C9_ReleasedOnEveryExit ==
    [][\A t \in Tasks :
          (pc[t] = "cs" /\ pc'[t] # "cs") =>
              LET l == myLock[t]
                  ws == locks'[l].waiters IN
              /\ ~locks'[l].locked
              /\ Len(ws) > 0 => fut'[ws[1]] \in {"result", "cancelled"}]_vars

\* C9 witness: a body ended by an exception or by cancellation, its lock is
\* free and the task that waited for it has been woken.
C9_Witness ==
    /\ lastExit \in {"raised", "cancelled"}
    /\ \E t \in Tasks :
          /\ pc[t] = "waiting"
          /\ fut[t] = "result"
          /\ ~locks[myLock[t]].locked

\* C10: a task waits only on a lock shared with tasks of its own channel id,
\* and while its future is pending one of them holds the lock or is queued
\* before it; a holder of another channel's lock never blocks it.
C10_IndependentKeys ==
    \A t \in Tasks :
        pc[t] = "waiting" =>
            /\ \A u \in Tasks :
                  (pc[u] # "idle" /\ myLock[u] = myLock[t]) => key[u] = key[t]
            /\ fut[t] = "pending" =>
                  \E u \in Tasks \ {t} :
                      /\ myLock[u] = myLock[t]
                      /\ pc[u] = "cs" \/ QueuedBefore(u, t)

\* C10 witness: two channels' bodies run at once while a third task waits
\* for one of them.
C10_Witness ==
    \E t, u, w \in Tasks :
        /\ pc[t] = "cs" /\ pc[u] = "cs" /\ key[t] # key[u]
        /\ pc[w] = "waiting" /\ key[w] = key[t]

\* A message whose handle_verification has written to the store and has a
\* store write or a deletion still to come.
MidPipeline(m) ==
    mpc[m] \in {"channels_upsert", "should_auto_verify", "verify_upsert", "delete"}

\* C3: the pipelines of two messages of one channel do not interleave: no two
\* of them are both between their first store write and their last write or
\* deletion.
C3_PipelineSerialized ==
    \A m, n \in Msgs :
        (m # n /\ msg[m].channel = msg[n].channel) =>
            ~(MidPipeline(m) /\ MidPipeline(n))

\* handle_verification is over (returned or raised) for a message whose author
\* cannot moderate, after the verification was read.
Decided(m) ==
    /\ mpc[m] \in {"reply", "done", "raised"}
    /\ msg[m].upserted
    /\ ~msg[m].can_moderate

Deleted(m) == msg[m].deletes > 0

\* C4: for an author who cannot moderate, delete is called exactly when the
\* author is verified in an unverified_only channel or not verified in a
\* verified_only channel.
C4_DeletionPolicy ==
    \A m \in Msgs :
        Decided(m) =>
            (Deleted(m) <=>
                \/ msg[m].user_is_verified /\ msg[m].policy.unverified_only
                \/ ~msg[m].user_is_verified /\ msg[m].policy.verified_only)

\* C4 witness: a verified author's message was deleted in an unverified_only
\* channel.
C4_Witness ==
    \E m \in Msgs :
        /\ Decided(m) /\ Deleted(m)
        /\ msg[m].user_is_verified /\ msg[m].policy.unverified_only

\* The message was decided with this verification value and these columns.
Scenario(m, v, uo, vo) ==
    /\ Decided(m)
    /\ msg[m].user_is_verified = v
    /\ msg[m].policy.unverified_only = uo
    /\ msg[m].policy.verified_only = vo

C6_ModeratorExempt ==
    \A m \in Msgs :
        msg[m].can_moderate =>
            /\ ~Deleted(m)
            /\ mpc[m] \notin {"is_verified", "unverified_only", "verified_only",
                               "delete", "raised"}
            /\ mpc[m] \in {"reply", "done"} =>
                  msg[m].upserted /\ verify[msg[m].author] # "absent"

\* C6 witness: a moderator who is not verified posted in a verified_only
\* channel, the row was upserted and the message kept.
C6_Witness ==
    \E m \in Msgs :
        /\ msg[m].can_moderate /\ mpc[m] = "done" /\ msg[m].upserted
        /\ msg[m].policy.verified_only
        /\ verify[msg[m].author] # "true"

\* C7: handle_verification passes only None or True to the upsert, and no
\* step of any message takes a user's verification away from true.
C7_VerifiedMonotone ==
    [][/\ \A m \in Msgs : msg'[m].verified \in {"none", "true"}
       /\ \A u \in Users : verify[u] = "true" => verify'[u] = "true"]_vars

\* C7 witness: a verified user's message went through the upsert of a
\* channel without auto_verify and the user is still verified.
C7_Witness ==
    \E m \in Msgs :
        /\ msg[m].upserted
        /\ ~msg[m].policy.auto_verify
        /\ verify[msg[m].author] = "true"

\* C8: a failing message.delete() does not raise out of handle_verification
\* and on_message.
C8_DeleteFailureContained == \A m \in Msgs : mpc[m] # "raised"

\* C11: an entry whose age has reached max_age without a new insertion is
\* absent for every lookup (get gives None, `in` gives False), and the
\* channel_lock call that comes next for its key leaves a new entry in the
\* cache whose lock is another instance than the expired one, unlocked and
\* without waiters, so that the caller enters at once.
C11_TtlEviction ==
    [][\A k \in Keys :
          LET i == IndexOf(cache, k) IN
          (i # 0 /\ cache[i].age >= MaxAge) =>
              /\ ExpGet(cache, k).val = None
              /\ ~ExpContains(cache, k).found
              /\ \A t \in Tasks :
                    (pc[t] = "idle" /\ pc'[t] # "idle" /\ key'[t] = k) =>
                        LET j == IndexOf(cache', k) IN
                        /\ j # 0
                        /\ cache'[j].age = 0
                        /\ cache'[j].lock = myLock'[t]
                        /\ cache'[j].lock # cache[i].lock
                        /\ pc'[t] = "cs"]_vars

\* C11 witness: no body has ended and no other channel was used, yet two
\* tasks are inside the same channel on two locks: the entry of the first
\* expired and the second call installed a new lock.
C11_Witness ==
    /\ lastExit = "none"
    /\ \E t, u \in Tasks :
          /\ pc[t] = "cs" /\ pc[u] = "cs"
          /\ key[t] = key[u] /\ myLock[t] # myLock[u]
          /\ \A w \in Tasks : key[w] \in {None, key[t]}
          /\ \E j \in 1..Len(cache) :
                cache[j].key = key[u] /\ cache[j].lock = myLock[u]

\* C12: channel_locks never holds more than max_len entries, live or not, and
\* never two entries of one channel id.
C12_CapacityBound ==
    /\ Len(cache) <= MaxLen
    /\ Cardinality({i \in 1..Len(cache) : cache[i].age < MaxAge}) <= MaxLen
    /\ \A i, j \in 1..Len(cache) : cache[i].key = cache[j].key => i = j

\* C12 witness: tasks are in channel_lock for more channel ids than max_len,
\* each of which was inserted, and the cache is full.
C12_Witness ==
    /\ Len(cache) = MaxLen
    /\ Cardinality({key[t] : t \in Tasks} \ {None}) > MaxLen

\* The exceptions the claim classifies: guild-required, admin-only (the class
\* client.py names and the one errors.py defines) and user-banned.
Classified == {"NoPrivateMessage", "SpellbotAdminOnly", "AdminOnlyError", "UserBannedError"}

\* The notice the claim gives each classified exception.
NoticeOf(c) ==
    IF c = "NoPrivateMessage" THEN "This command is not supported via Direct Message."
    ELSE IF c \in {"SpellbotAdminOnly", "AdminOnlyError"}
    THEN "You do not have permission to do that."
    ELSE "You have been banned from using SpellBot."

\* C13: when handle_errors is over, a guild-required, admin-only or
\* user-banned error got exactly one hidden notice with its own text and no
\* log record; any other exception got no notice and exactly one error record
\* whose reference is the command name of a slash context, the component id of
\* a component context and the interaction id otherwise.
C13_ErrorRouter ==
    \A e \in Errs :
        epc[e] = "done" =>
            IF err[e].ex \in Classified
            THEN /\ sent[e] = <<[text |-> NoticeOf(err[e].ex), hidden |-> TRUE]>>
                 /\ logged[e] = <<>>
            ELSE /\ sent[e] = <<>>
                 /\ Len(logged[e]) = 1
                 /\ logged[e][1].ref =
                        (CASE err[e].ctx.type = "SlashContext" -> <<"command", "name">>
                           [] err[e].ctx.type = "ComponentContext" -> <<"component", "custom_id">>
                           [] OTHER -> <<"interaction", "interaction_id">>)

\* The message's verify.upsert ran for a channel that auto-verifies.
AutoVerified(m) == msg[m].upserted /\ msg[m].policy.auto_verify

\* C14: once the pipeline of a message of an auto_verify channel has run its
\* upsert the author is verified, also after a second such message of the same
\* author, run after or interleaved with the first; and an upsert of an
\* auto_verify channel for an author who is verified already changes no
\* verification value.
C14_AutoVerifyIdempotent ==
    [][/\ \A m \in Msgs : AutoVerified(m)' => verify'[msg'[m].author] = "true"
       /\ \A m \in Msgs :
             (/\ mpc[m] = "verify_upsert" /\ mpc'[m] # "verify_upsert"
              /\ msg[m].policy.auto_verify
              /\ verify[msg[m].author] = "true") => verify' = verify]_vars

\* C14 witness: two messages of one author went through the upsert of an
\* auto_verify channel, the second one while the first had not finished, and
\* the author is verified.
C14_Witness ==
    \E m, n \in Msgs :
        /\ m # n /\ msg[m].author = msg[n].author
        /\ AutoVerified(m) /\ AutoVerified(n)
        /\ mpc[m] = "is_verified" /\ mpc[n] = "is_verified"
        /\ verify[msg[m].author] = "true"

\* C15: a guild message outside a text channel, or a hidden one, is over as
\* soon as on_message has looked at it: the step leaves the store as it is,
\* and no upsert, verification read, deletion or reply is ever made for it.
C15_ShortCircuit ==
    [][\A m \in Msgs :
          msg'[m].kind \in {"nontext", "hidden"} =>
              /\ mpc'[m] = "done"
              /\ ~msg'[m].upserted /\ msg'[m].deletes = 0
              /\ mpc[m] = "new" =>
                    /\ guildRows' = guildRows
                    /\ channelRows' = channelRows
                    /\ verify' = verify]_vars

\* C15 witness: a hidden message was dropped while the store is still empty
\* and another message's pipeline is under way.
C15_Witness ==
    \E m, n \in Msgs :
        /\ msg[m].kind = "hidden" /\ mpc[m] = "done"
        /\ mpc[n] = "guilds_upsert"
        /\ ~guildRows /\ channelRows = {}

\* C16: a task cancelled while it waits in channel_lock never enters the
\* body; when the CancelledError has reached it, it is in no lock's queue, the
\* lock it waited for is locked only if it was before, and a free lock's first
\* waiter is runnable (woken, or cancelled itself), so nobody waits behind the
\* task that left.
C16_CancelledWaiter ==
    [][\A t \in Tasks :
          /\ fut[t] = "cancelled" => pc'[t] # "cs"
          /\ (pc[t] = "waiting" /\ pc'[t] = "idle") =>
                LET l == myLock[t]
                    ws == locks'[l].waiters IN
                /\ \A m \in LockIds : \A i \in 1..Len(locks'[m].waiters) :
                      locks'[m].waiters[i] # t
                /\ locks'[l].locked = locks[l].locked
                /\ (~locks'[l].locked /\ Len(ws) > 0) =>
                      fut'[ws[1]] \in {"result", "cancelled"}]_vars

\* C16 witness: a lock was released while a cancelled waiter was still at the
\* head of its queue with a pending waiter behind it.
C16_Witness ==
    \E t, u \in Tasks :
        /\ pc[t] = "waiting" /\ fut[t] = "cancelled"
        /\ pc[u] = "waiting" /\ fut[u] = "pending"
        /\ myLock[u] = myLock[t]
        /\ ~locks[myLock[t]].locked
        /\ locks[myLock[t]].waiters = <<t, u>>

\* C17: the tasks that are in channel_lock for one channel id at the same
\* time, waiting or inside, are all bound to one lock instance, the only one
\* created for the id, and the cache never holds two entries of one id.
C17_AtomicGetOrCreate ==
    /\ \A t, u \in Tasks :
          (pc[t] # "idle" /\ pc[u] # "idle" /\ key[t] = key[u]) =>
              myLock[t] = myLock[u]
    /\ \A i, j \in 1..Len(cache) : cache[i].key = cache[j].key => i = j

\* C18: message.delete is called at most once for a message, whatever the
\* verification value and the channel's columns, also with unverified_only
\* and verified_only both set; and handle_verification raises only out of a
\* delete it has called, never because of the columns.
C18_NoDuplicateDeletion ==
    \A m \in Msgs :
        /\ msg[m].deletes <= 1
        /\ mpc[m] = "raised" => msg[m].deletes = 1
        /\ (Decided(m) /\ msg[m].policy.unverified_only /\ msg[m].policy.verified_only)
              => msg[m].deletes = 1

\* C18 witness: a verified author's message was handled to the end in a
\* channel with both columns set, with one delete.
C18_Witness ==
    \E m \in Msgs :
        /\ mpc[m] = "done" /\ Decided(m)
        /\ msg[m].user_is_verified
        /\ msg[m].policy.unverified_only /\ msg[m].policy.verified_only
        /\ msg[m].deletes = 1

\* The verification of the message's author has been read (line 150).
ReadDone(m) ==
    \/ mpc[m] \in {"unverified_only", "verified_only", "delete"}
    \/ Decided(m)

\* C19: a message's verification is read only after its upsert, and in an
\* auto_verify channel the read gives true, whatever other messages'
\* pipelines do in between: the message is deleted exactly when the channel is
\* unverified_only.
C19_PostUpsertValue ==
    \A m \in Msgs :
        /\ (mpc[m] = "is_verified" \/ ReadDone(m)) => msg[m].upserted
        /\ (ReadDone(m) /\ msg[m].policy.auto_verify) =>
              /\ msg[m].user_is_verified
              /\ mpc[m] # "verified_only"
              /\ Decided(m) => (Deleted(m) <=> msg[m].policy.unverified_only)

\* C19 witness: a message of an auto_verify, verified_only channel was kept
\* while the pipeline of another message of the same author, from a channel
\* without auto_verify, is between its upsert and its read.
C19_Witness ==
    \E m, n \in Msgs :
        /\ m # n /\ msg[m].author = msg[n].author
        /\ Decided(m) /\ msg[m].policy.auto_verify /\ msg[m].policy.verified_only
        /\ ~msg[m].policy.unverified_only /\ ~Deleted(m)
        /\ mpc[n] = "is_verified" /\ ~msg[n].policy.auto_verify

\* C20: a call of channel_lock never ends without its body having been
\* entered unless the task is cancelled, and, provided every body that is
\* entered ends, a task waiting in channel_lock enters its body or is
\* cancelled (the only way back to idle for a waiting task), also when the
\* entry of its channel id was dropped and replaced by a new lock while it
\* waits on the old one.
C20_NoLostWaiter ==
    /\ [](lastExit # "keyerror")
    /\ \A t \in Tasks : (pc[t] = "waiting") ~> (pc[t] \in {"cs", "idle"})
====
